---- MODULE Spec2Model ----
(***************************************************************************)
(* A model of src/gis.py: simplify_shps (the sliver-elimination loop),     *)
(* simplify_shps_mp (the split in four quarters, each simplified by a pool *)
(* task) and the helpers they rest on.                                     *)
(*                                                                         *)
(* Geometry is modelled on a plane of unit cells.  A geometry is a         *)
(* set of cells; its area is the number of cells; a Polygon is an          *)
(* edge-connected set of cells and a MultiPolygon any other non-empty set. *)
(* Two geometries intersect (or touch) when some cell of one shares a      *)
(* point (itself, an edge or a corner) with a cell of the other.  The      *)
(* length of the shared boundary is the number of unit edges that lie on   *)
(* the boundary of both.  Polygons with holes need a ring of eight cells   *)
(* and do not occur in the layers of the model, so the boundary of every   *)
(* Polygon is one ring (the MultiLineString branches of lines 276-285 are  *)
(* not entered).  The features of an input layer do not overlap, except   *)
(* in the layers of SpecOverlap, where any two may share cells.  The       *)
(* layers are in the coordinate system EPSG:31467, so that the area the    *)
(* code takes after to_crs(epsg=31467) (lines 218, 306) and the area it    *)
(* takes of the layer as it is (lines 219, 308, 392) are the same number.  *)
(***************************************************************************)
EXTENDS Integers, Sequences, FiniteSets, TLC

\* ------------------------------------------------------------------ bounds
\* Largest number of features of an input collection.
NumFeat == 3
\* Largest area_lim of an input (area_lim ranges over 2..MaxAreaLim).
MaxAreaLim == 3
\* Largest dist_lim of an input of simplify_shps_mp (dist_lim ranges over 0..MaxDist).
MaxDist == 1

\* The plane: the unit cell c = x + 8 * y is the square [x, x+1] x [y, y+1].
\* The layers given to simplify_shps lie on a row of three cells with a fourth
\* beside the middle one:    0 1 2
\*                             9
\* so 0-1, 1-2 and 1-9 share an edge, 0-9 and 2-9 share only a corner, and 0
\* and 2 do not touch.
Cells == {0, 1, 2, 9}

\* ---------------------------------------------------------------- geometry
Abs(n) == IF n < 0 THEN -n ELSE n
Min(S) == CHOOSE m \in S : \A k \in S : m <= k
X(c) == c % 8
Y(c) == c \div 8

\* shapely: Polygon.intersects / touches between two unit cells.
PointAdj(a, b) == Abs(X(a) - X(b)) <= 1 /\ Abs(Y(a) - Y(b)) <= 1
\* two unit cells share an edge
EdgeAdj(a, b) == Abs(X(a) - X(b)) + Abs(Y(a) - Y(b)) = 1

\* gdf.touches(geom) | gdf.intersects(geom) for one geometry of the frame
Intersects(f, g) == \E a \in f, b \in g : PointAdj(a, b)

\* GeoSeries.area
Area(g) == Cardinality(g)

\* The four sides of a cell, and the cell across a side (-1: off the plane).
Dirs == 1..4
Across(c, d) ==
    CASE d = 1 -> IF X(c) < 7 THEN c + 1 ELSE -1
      [] d = 2 -> IF X(c) > 0 THEN c - 1 ELSE -1
      [] d = 3 -> c + 8
      [] d = 4 -> IF Y(c) > 0 THEN c - 8 ELSE -1
Opp(d) == CASE d = 1 -> 2 [] d = 2 -> 1 [] d = 3 -> 4 [] d = 4 -> 3

\* geom.boundary: the sides of the cells of g that face a cell not in g
Boundary(g) == {s \in g \X Dirs : Across(s[1], s[2]) \notin g}

\* shared_paths(geom_bound, nb_bound).length
SharedBorderLength(f, g) ==
    LET bg == Boundary(g)
    IN Cardinality({s \in Boundary(f) :
          \/ s \in bg
          \/ /\ Across(s[1], s[2]) # -1
             /\ <<Across(s[1], s[2]), Opp(s[2])>> \in bg})

\* The cells of g that are edge-connected to the cells of S.
RECURSIVE Grow(_, _)
Grow(S, g) ==
    LET T == S \cup {b \in g : \E a \in S : EdgeAdj(a, b)}
    IN IF T = S THEN S ELSE Grow(T, g)

\* The parts (Polygons) of a geometry, in the order of their least cell.
RECURSIVE Parts(_)
Parts(g) ==
    IF g = {} THEN <<>>
    ELSE LET p == Grow({Min(g)}, g) IN <<p>> \o Parts(g \ p)

IsPolygon(g) == g # {} /\ Grow({Min(g)}, g) = g

\* --------------------------------------------------------------- the frame
\* A row of a GeoDataFrame: its geometry, its values in the two category
\* columns (cat), its value in the keep column, and the changed flag.
\* The index label of the row at position k of a frame is k - 1.
Null == "null"

RECURSIVE SortedSeq(_)
SortedSeq(S) ==
    IF S = {} THEN <<>> ELSE <<Min(S)>> \o SortedSeq(S \ {Min(S)})

RECURSIVE Flatten(_)
Flatten(ss) == IF ss = <<>> THEN <<>> ELSE Head(ss) \o Flatten(Tail(ss))

\* DataFrame.fillna("NAN") on one value, and on a row
FillValue(v) == IF v = Null THEN "NAN" ELSE v
FillRow(r) ==
    [r EXCEPT !.cat = <<FillValue(r.cat[1]), FillValue(r.cat[2])>>,
              !.keep = FillValue(r.keep)]
FillNa(df) == [k \in 1..Len(df) |-> FillRow(df[k])]

\* lines 310-313: every "NAN" of an object column becomes NaN again
NanBackValue(v) == IF v = "NAN" THEN Null ELSE v
NanBackRow(r) ==
    [geom |-> r.geom,
     cat |-> <<NanBackValue(r.cat[1]), NanBackValue(r.cat[2])>>,
     keep |-> NanBackValue(r.keep)]
NanBack(df) == [k \in 1..Len(df) |-> NanBackRow(df[k])]

\* ExplodeRow, were a MultiPolygon left as it is.
ExplodeRowWhole(r) == <<r>>

\* GeoDataFrame.explode(ignore_index=True): one row per part, attributes copied
ExplodeRow(r) ==
    LET parts == Parts(r.geom) IN [k \in 1..Len(parts) |-> [r EXCEPT !.geom = parts[k]]]
Explode(df) == Flatten([k \in 1..Len(df) |-> ExplodeRow(df[k])])

\* DisKey, were the keep columns left out of the dissolve columns.
DisKeyCatOnly(r, keep_cols) == <<r.cat>>

\* lines 184-190: the dissolve columns
DisKey(r, keep_cols) == IF keep_cols THEN <<r.cat, r.keep>> ELSE <<r.cat>>

\* Dissolve, were the geometries of a group not unioned.
DissolveFirstOnly(df, keep_cols) ==
    LET firsts == SortedSeq({k \in 1..Len(df) :
                    \A j \in 1..(k - 1) : DisKey(df[j], keep_cols) # DisKey(df[k], keep_cols)})
    IN [n \in 1..Len(firsts) |-> df[firsts[n]]]

\* GeoDataFrame.dissolve(dis_cols, sort=False, as_index=False): one row per key
\* in the order of first appearance; the geometries of the group are unioned,
\* every other column takes the value of the group's first row.
Dissolve(df, keep_cols) ==
    LET firsts == SortedSeq({k \in 1..Len(df) :
                    \A j \in 1..(k - 1) : DisKey(df[j], keep_cols) # DisKey(df[k], keep_cols)})
    IN [n \in 1..Len(firsts) |->
          [df[firsts[n]] EXCEPT !.geom =
              UNION {df[j].geom : j \in {j \in 1..Len(df) :
                        DisKey(df[j], keep_cols) = DisKey(df[firsts[n]], keep_cols)}}]]

SetChanged(df, b) == [k \in 1..Len(df) |-> [df[k] EXCEPT !.changed = b]]

\* lines 218-219 and 306-308: the rows below area_lim, smallest first (ties
\* keep the order of the frame); each row is a copy carrying its index label.
SmallLabels(df, lim) == {k \in 1..Len(df) : Area(df[k].geom) < lim}

\* SortByArea, were the small rows left in the order of the frame.
SortByLabel(S, df) == SortedSeq(S)

RECURSIVE SortByArea(_, _)
SortByArea(S, df) ==
    IF S = {} THEN <<>>
    ELSE LET m == CHOOSE k \in S : \A j \in S :
                    \/ Area(df[k].geom) < Area(df[j].geom)
                    \/ Area(df[k].geom) = Area(df[j].geom) /\ k <= j
         IN <<m>> \o SortByArea(S \ {m}, df)
WithName(r, lbl) ==
    [name |-> lbl, geom |-> r.geom, cat |-> r.cat, keep |-> r.keep, changed |-> r.changed]
MaskSmall(df, lim) ==
    LET order == SortByArea(SmallLabels(df, lim), df)
    IN [k \in 1..Len(order) |-> WithName(df[order[k]], order[k] - 1)]

\* ----------------------------------------------------- the neighbour search
\* line 234: at least one category column differs
CatDiffers(c, d) == c[1] # d[1] \/ c[2] # d[2]

\* TouchRows, were the rows not asked to touch the sliver.
TouchRowsAnywhere(row, df, keep_cols) ==
    LET hit == SortedSeq({k \in 1..Len(df) :
                  /\ CatDiffers(df[k].cat, row.cat)
                  /\ (keep_cols => df[k].keep = row.keep)})
    IN [n \in 1..Len(hit) |-> WithName(df[hit[n]], hit[n] - 1)]

\* TouchRows, were the keep columns not compared.
TouchRowsAnyKeep(row, df, keep_cols) ==
    LET hit == SortedSeq({k \in 1..Len(df) :
                  /\ Intersects(df[k].geom, row.geom)
                  /\ CatDiffers(df[k].cat, row.cat)})
    IN [n \in 1..Len(hit) |-> WithName(df[hit[n]], hit[n] - 1)]

\* lines 231-237: the rows of gdf_out that touch or intersect the sliver's
\* geometry, differ from it in a category column and, with keep columns,
\* equal it in the keep column; in frame order, each with its index label.
TouchRows(row, df, keep_cols) ==
    LET hit == SortedSeq({k \in 1..Len(df) :
                  /\ Intersects(df[k].geom, row.geom)
                  /\ CatDiffers(df[k].cat, row.cat)
                  /\ (keep_cols => df[k].keep = row.keep)})
    IN [n \in 1..Len(hit) |-> WithName(df[hit[n]], hit[n] - 1)]

AnyChanged(touch) == \E k \in 1..Len(touch) : touch[k].changed

\* lines 242-244: with a changed row among them the candidates are dissolved
\* and exploded again, which also renumbers them 0, 1, ...
Renumber(touch) == [k \in 1..Len(touch) |-> [touch[k] EXCEPT !.name = k - 1]]
Redissolve(touch, keep_cols) ==
    IF AnyChanged(touch) THEN Renumber(Explode(Dissolve(touch, keep_cols))) ELSE touch

\* rasterstats.zonal_stats(..., stats=["mean"]): the mean of the raster under
\* a geometry is ZonalSum(g, raster) / Area(g); the model keeps the fraction.
RECURSIVE ZonalSum(_, _)
ZonalSum(g, raster) ==
    IF g = {} THEN 0 ELSE raster[Min(g)] + ZonalSum(g \ {Min(g)}, raster)

\* line 263: raster_diff of a candidate, as numerator and denominator
DiffNum(t, row, raster) ==
    Abs(ZonalSum(t.geom, raster) * Area(row.geom) - ZonalSum(row.geom, raster) * Area(t.geom))
DiffDen(t, row) == Area(t.geom) * Area(row.geom)
DiffLess(t, u, row, raster) ==
    DiffNum(t, row, raster) * DiffDen(u, row) < DiffNum(u, row, raster) * DiffDen(t, row)
DiffEqual(t, u, row, raster) ==
    DiffNum(t, row, raster) * DiffDen(u, row) = DiffNum(u, row, raster) * DiffDen(t, row)

\* line 264: Series.idxmin, the position of the first least raster_diff
IdxMinDiff(touch, row, raster) ==
    Min({p \in 1..Len(touch) : \A q \in 1..Len(touch) : ~DiffLess(touch[q], touch[p], row, raster)})

\* line 267: `value in Series` looks the value up among the index labels of
\* the Series: it holds when the least raster_diff is a whole number that is
\* the index label of one of the other candidates.
TieCheck(touch, p, row, raster) ==
    \E q \in 1..Len(touch) :
        /\ touch[q].name # touch[p].name
        /\ DiffNum(touch[p], row, raster) = touch[q].name * DiffDen(touch[p], row)

\* line 268: the candidates whose raster_diff equals the least one
TiedRows(touch, p, row, raster) ==
    SelectSeq(touch, LAMBDA t : DiffEqual(t, touch[p], row, raster))

\* IdxMaxBorder, were the first candidate taken whatever its border.
IdxFirst(touch, row) == 1

\* lines 271-290: Series.idxmax of the shared border length, the first longest
IdxMaxBorder(touch, row) ==
    LET shared == [q \in 1..Len(touch) |-> SharedBorderLength(row.geom, touch[q].geom)]
    IN Min({p \in 1..Len(touch) : \A q \in 1..Len(touch) : shared[q] <= shared[p]})

\* lines 248-290: the candidate whose categories replace the sliver's.
SelectRepl(touch, row, raster) ==
    IF Len(touch) = 1 THEN touch[1]
    ELSE IF raster # <<>>
         THEN LET p == IdxMinDiff(touch, row, raster)
              IN IF TieCheck(touch, p, row, raster)
                 THEN LET tied == TiedRows(touch, p, row, raster)
                      IN tied[IdxMaxBorder(tied, row)]
                 ELSE touch[p]
         ELSE touch[IdxMaxBorder(touch, row)]

\* lines 229-290, one turn of the for loop: the sliver, its candidates and
\* their number, and the candidate selected (none: the sliver is skipped).
Pick(row, df, keep_cols, raster) ==
    LET touch == Redissolve(TouchRows(row, df, keep_cols), keep_cols)
    IN [row |-> row,
        touch |-> touch,
        ncand |-> Len(touch),
        cand |-> IF touch = <<>> THEN <<>> ELSE <<SelectRepl(touch, row, raster)>>]

\* ApplyPick, were only the first category column copied.
ApplyPickFirstColumn(df, pk) ==
    IF pk.cand = <<>> THEN df
    ELSE [df EXCEPT ![pk.row.name + 1].cat = <<pk.cand[1].cat[1], @[2]>>,
                    ![pk.row.name + 1].changed = TRUE]

\* ApplyPick, were the changed flag not set.
ApplyPickNoFlag(df, pk) ==
    IF pk.cand = <<>> THEN df
    ELSE [df EXCEPT ![pk.row.name + 1].cat = pk.cand[1].cat]

\* lines 292-295: the sliver takes the categories of the candidate selected
ApplyPick(df, pk) ==
    IF pk.cand = <<>> THEN df
    ELSE [df EXCEPT ![pk.row.name + 1].cat = pk.cand[1].cat,
                    ![pk.row.name + 1].changed = TRUE]

\* The frame as it was when the pass began: mask_shps_small holds copies of
\* the small rows made then, and only small rows are rewritten.
PassStart(df, mask) ==
    [k \in 1..Len(df) |->
        IF \E m \in 1..Len(mask) : mask[m].name = k - 1
        THEN LET m == CHOOSE m \in 1..Len(mask) : mask[m].name = k - 1
             IN [geom |-> mask[m].geom, cat |-> mask[m].cat,
                 keep |-> mask[m].keep, changed |-> FALSE]
        ELSE df[k]]

\* lines 299-305: dissolve, explode, and reset the changed flag
DissolveExplode(df, keep_cols) == SetChanged(Explode(Dissolve(df, keep_cols)), FALSE)

\* ------------------------------------------------------------ simplify_shps
VARIABLES
    gdf_in,           \* the input collection: rows [geom, cat, keep]
    area_lim,         \* the area limit
    keep_cols,        \* TRUE when keep_cols is given (the keep column), FALSE when None
    comp_raster,      \* the raster, a value per cell, or <<>> for None
    gdf_out,          \* the frame the loop works on
    mask_shps_small,  \* the rows below area_lim of the current pass, smallest first
    todo,             \* the rows of mask_shps_small the for loop has yet to visit
    len_before,
    len_after,
    pc,               \* "start", "scan" (in the while loop), "restore", "done"
    result,           \* the returned frame
    \* the history of the run, kept for the properties only:
    passes,           \* the number of completed runs of the loop body
    small_hist,       \* Len(mask_shps_small) each time it was computed
    picked,           \* the rewrites of the current pass, in the order made
    last_pass,        \* the last completed pass: the frame at its start, the frame
                      \* the dissolve was applied to, the rewrites made, and the
                      \* frame the dissolve and explode gave
    \* simplify_shps_mp:
    dist_lim,         \* the width of the border area
    mp_pc,            \* "off", "split", "stage", "pool", "load", "concat", "done"
    parts,            \* the four quarters: rows [idx, geom, cat, keep]
    parts_border,     \* the rows of each quarter in its border area
    excluded_shps,    \* the rows of the input that are in no quarter
    temp_dir,         \* the files of a directory: a file name is the sequence
                      \* of the parts of it that its dots separate
    layer,            \* the frame each .shp file of temp_dir holds, by stem
    worker,           \* each pool task: "queued", "read", "written"
    in_gdf,           \* the frame each pool task has read
    parts_simplified, \* the frames loaded after the pool was joined
    mp_result,        \* the returned frame
    \* del_shp called by itself:
    fp,               \* the file name given
    del_pc,           \* "off", "call", "returned", "raised"
    dir_before        \* the files of the directory when del_shp was called

del_vars == <<fp, del_pc, dir_before>>

mp_vars == <<dist_lim, mp_pc, parts, parts_border, excluded_shps, temp_dir, layer,
             worker, in_gdf, parts_simplified, mp_result, del_vars>>

run_vars == <<gdf_out, mask_shps_small, todo, len_before, len_after, pc, result,
              passes, small_hist, picked, last_pass>>

vars == <<gdf_in, area_lim, keep_cols, comp_raster, run_vars, mp_vars>>

\* The input values of the model.  The code compares category keys and keep
\* values for equality only, so the inputs without missing values are drawn up
\* to a renaming of the keys: the first row has the first key, and a row has
\* a key of an earlier row or the next unused one.
CatKeys == <<<<"X", "X">>, <<"X", "Y">>, <<"Y", "Y">>>>
KeepVals == <<"a", "b">>
UpToRenaming(n, m) ==
    {c \in [1..n -> 1..m] :
        \A i \in 1..n : \A v \in 1..(c[i] - 1) : \E j \in 1..(i - 1) : c[j] = v}
Cats(n) == {[i \in 1..n |-> CatKeys[c[i]]] : c \in UpToRenaming(n, Len(CatKeys))}
Keeps(n) == {[i \in 1..n |-> KeepVals[c[i]]] : c \in UpToRenaming(n, Len(KeepVals))}
RasterVals == {0, 1}
\* A difference of two means is the same when the two raster values change
\* places, so the rasters are drawn with the first value under the first cell.
Rasters == {r \in [Cells -> RasterVals] : r[Min(Cells)] = 0}

\* Rows with missing values (Null) and with the text "NAN" itself.  Geoms
\* gives the geometries in every order, so the attributes are drawn in the
\* order of this list: every pairing of geometries and attributes occurs.
NullAttrs ==
    <<[cat |-> <<"X", "X">>, keep |-> "a"],
      [cat |-> <<Null, "X">>, keep |-> "a"],
      [cat |-> <<"NAN", "X">>, keep |-> "a"],
      [cat |-> <<"X", "X">>, keep |-> Null],
      [cat |-> <<"X", "X">>, keep |-> "NAN"]>>
NullRows(n) ==
    {[i \in 1..n |-> NullAttrs[a[i]]] :
        a \in {b \in [1..n -> 1..Len(NullAttrs)] : \A i \in 1..(n - 1) : b[i] <= b[i + 1]}}

\* n geometries, pairwise disjoint; a geometry may have several parts.
Geoms(n) ==
    {g \in [1..n -> (SUBSET Cells) \ {{}}] :
        \A i, j \in 1..n : i < j => g[i] \cap g[j] = {}}

Frame(g, c, k) == [i \in DOMAIN g |-> [geom |-> g[i], cat |-> c[i], keep |-> k[i]]]

InitRun ==
    /\ gdf_out = <<>>
    /\ mask_shps_small = <<>>
    /\ todo = <<>>
    /\ len_before = 0
    /\ len_after = 0
    /\ pc = "start"
    /\ result = <<>>
    /\ passes = 0
    /\ small_hist = <<>>
    /\ picked = <<>>
    /\ last_pass = [start |-> <<>>, frame |-> <<>>, picked |-> <<>>, after |-> <<>>]

\* the pool of simplify_shps_mp before it is made
InitTasks ==
    /\ parts = <<>>
    /\ parts_border = <<>>
    /\ excluded_shps = <<>>
    /\ layer = <<>>
    /\ worker = <<>>
    /\ in_gdf = <<>>
    /\ parts_simplified = <<>>
    /\ mp_result = <<>>

\* simplify_shps_mp before its first statement; del_shp is not called by itself
InitPool ==
    /\ InitTasks
    /\ temp_dir = {}
    /\ fp = <<>>
    /\ del_pc = "off"
    /\ dir_before = {}

\* simplify_shps called directly: simplify_shps_mp is not running
InitDirect ==
    /\ InitRun
    /\ InitPool
    /\ dist_lim = 0
    /\ mp_pc = "off"

\* Inputs without a raster: any layout of up to NumFeat features.
InitBorder ==
    /\ \E n \in 1..NumFeat : \E g \in Geoms(n) : \E c \in Cats(n) :
          \/ /\ keep_cols = FALSE
             /\ gdf_in = Frame(g, c, [i \in 1..n |-> "a"])
          \/ /\ keep_cols = TRUE
             /\ \E k \in Keeps(n) : gdf_in = Frame(g, c, k)
    /\ area_lim \in 2..MaxAreaLim
    /\ comp_raster = <<>>
    /\ InitDirect

\* Inputs with a raster, a value per cell; no keep columns.
InitRaster ==
    /\ \E n \in 1..NumFeat : \E g \in Geoms(n) : \E c \in Cats(n) :
          gdf_in = Frame(g, c, [i \in 1..n |-> "a"])
    /\ keep_cols = FALSE
    /\ area_lim \in 2..MaxAreaLim
    /\ comp_raster \in Rasters
    /\ InitDirect

\* Inputs with missing values, of up to NumFeat - 1 features.
InitNull ==
    /\ \E n \in 1..(NumFeat - 1) : \E g \in Geoms(n) : \E a \in NullRows(n) :
          gdf_in = [i \in 1..n |-> [geom |-> g[i], cat |-> a[i].cat, keep |-> a[i].keep]]
    /\ keep_cols = TRUE
    /\ area_lim \in 2..MaxAreaLim
    /\ comp_raster = <<>>
    /\ InitDirect

Init == InitBorder \/ InitRaster \/ InitNull

\* LoopCond, were the feature counts not compared.
LoopCondSmallOnly(mask, before, after) == Len(mask) > 0

\* LoopCond, were the small rows not looked at.
LoopCondCountsOnly(mask, before, after) == before # after

\* the while condition of lines 225-227
LoopCond(mask, before, after) == Len(mask) > 0 /\ before # after

\* Prepare, were the input not exploded.
PrepareNoExplode(df) ==
    FillNa([k \in 1..Len(df) |->
        [geom |-> df[k].geom, cat |-> df[k].cat, keep |-> df[k].keep, changed |-> FALSE]])

\* lines 193-195 and 222: the input exploded, its missing values filled, and
\* the changed column added
Prepare(df) ==
    FillNa(Explode([k \in 1..Len(df) |->
        [geom |-> df[k].geom, cat |-> df[k].cat, keep |-> df[k].keep, changed |-> FALSE]]))

\* lines 184-222: explode, fill the missing values, find the small rows
Start ==
    /\ pc = "start"
    /\ LET df == Prepare(gdf_in)
           mask == MaskSmall(df, area_lim)
       IN /\ gdf_out' = df
          /\ mask_shps_small' = mask
          /\ todo' = mask
          /\ len_before' = 3
          /\ len_after' = 2
          /\ pc' = IF LoopCond(mask, 3, 2) THEN "scan" ELSE "restore"
          /\ small_hist' = <<Len(mask)>>
    /\ UNCHANGED <<gdf_in, area_lim, keep_cols, comp_raster, result, passes,
                   picked, last_pass>>
    /\ UNCHANGED mp_vars

\* lines 229-295: one turn of the for loop
Resolve ==
    /\ pc = "scan"
    /\ todo # <<>>
    /\ LET pk == Pick(Head(todo), gdf_out, keep_cols, comp_raster)
       IN /\ gdf_out' = ApplyPick(gdf_out, pk)
          /\ picked' = Append(picked, pk)
    /\ todo' = Tail(todo)
    /\ UNCHANGED <<gdf_in, area_lim, keep_cols, comp_raster, mask_shps_small,
                   len_before, len_after, pc, result, passes, small_hist, last_pass>>
    /\ UNCHANGED mp_vars

\* lines 297-308: the end of the loop body, and the test of the while condition
DissolveStep ==
    /\ pc = "scan"
    /\ todo = <<>>
    /\ LET df == DissolveExplode(gdf_out, keep_cols)
           mask == MaskSmall(df, area_lim)
       IN /\ len_before' = Len(gdf_out)
          /\ len_after' = Len(df)
          /\ gdf_out' = df
          /\ mask_shps_small' = mask
          /\ todo' = mask
          /\ pc' = IF LoopCond(mask, Len(gdf_out), Len(df)) THEN "scan" ELSE "restore"
          /\ small_hist' = Append(small_hist, Len(mask))
    /\ passes' = passes + 1
    /\ last_pass' = [start |-> PassStart(gdf_out, mask_shps_small),
                     frame |-> gdf_out, picked |-> picked,
                     after |-> DissolveExplode(gdf_out, keep_cols)]
    /\ picked' = <<>>
    /\ UNCHANGED <<gdf_in, area_lim, keep_cols, comp_raster, result>>
    /\ UNCHANGED mp_vars

\* lines 310-320: the missing values come back, the changed column is dropped
Restore ==
    /\ pc = "restore"
    /\ result' = NanBack(gdf_out)
    /\ pc' = "done"
    /\ UNCHANGED <<gdf_in, area_lim, keep_cols, comp_raster, gdf_out, mask_shps_small,
                   todo, len_before, len_after, passes, small_hist, picked, last_pass>>
    /\ UNCHANGED mp_vars

Next == Start \/ Resolve \/ DissolveStep \/ Restore

Spec == Init /\ [][Next]_vars

\* simplify_shps on a layer whose features may overlap: any layout of up to
\* NumFeat - 1 features, without a raster and without keep columns.
Layouts(n) == [1..n -> (SUBSET Cells) \ {{}}]
InitOverlap ==
    /\ \E n \in 1..(NumFeat - 1) : \E g \in Layouts(n) : \E c \in Cats(n) :
          gdf_in = Frame(g, c, [i \in 1..n |-> "a"])
    /\ keep_cols = FALSE
    /\ area_lim \in 2..MaxAreaLim
    /\ comp_raster = <<>>
    /\ InitDirect

SpecOverlap == InitOverlap /\ [][Next]_vars

\* ---------------------------------------------------------------------------
\* simplify_shps as one computation, as a pool task and the last statement of
\* simplify_shps_mp call it

\* lines 229-295 for every row of the mask in turn
RECURSIVE ScanAll(_, _, _, _)
ScanAll(df, rows, kc, raster) ==
    IF rows = <<>> THEN df
    ELSE ScanAll(ApplyPick(df, Pick(Head(rows), df, kc, raster)), Tail(rows), kc, raster)

\* lines 225-308: the while loop
RECURSIVE RunLoop(_, _, _, _, _, _, _)
RunLoop(df, mask, before, after, lim, kc, raster) ==
    IF ~LoopCond(mask, before, after) THEN df
    ELSE LET scanned == ScanAll(df, mask, kc, raster)
             dis == DissolveExplode(scanned, kc)
         IN RunLoop(dis, MaskSmall(dis, lim), Len(scanned), Len(dis), lim, kc, raster)

\* lines 137-320
SimplifyShps(df, lim, kc, raster) ==
    LET p == Prepare(df)
    IN NanBack(RunLoop(p, MaskSmall(p, lim), 3, 2, lim, kc, raster))

\* ---------------------------------------------------------------------------
\* simplify_shps_mp

Quarters == 1..4

Max(S) == CHOOSE m \in S : \A k \in S : m >= k

\* GeoSeries.bounds of one geometry
minx(g) == Min({X(c) : c \in g})
maxx(g) == Max({X(c) + 1 : c \in g})
miny(g) == Min({Y(c) : c \in g})
maxy(g) == Max({Y(c) + 1 : c \in g})

\* lines 361-364, doubled so that the middle stays a whole number
TwiceMeanX(df) ==
    Max({maxx(df[k].geom) : k \in 1..Len(df)}) + Min({minx(df[k].geom) : k \in 1..Len(df)})
TwiceMeanY(df) ==
    Max({maxy(df[k].geom) : k \in 1..Len(df)}) + Min({miny(df[k].geom) : k \in 1..Len(df)})

\* the rows of the frame, each with its index label
Indexed(df) ==
    [k \in 1..Len(df) |->
        [idx |-> df[k].idx, geom |-> df[k].geom, cat |-> df[k].cat, keep |-> df[k].keep]]

\* the first mask of lines 368, 374, 380 and 386
InQuarter(q, g, mx2, my2) ==
    CASE q = 1 -> 2 * miny(g) >= my2 /\ 2 * maxx(g) <= mx2
      [] q = 2 -> 2 * miny(g) >= my2 /\ 2 * minx(g) > mx2
      [] q = 3 -> 2 * maxy(g) < my2 /\ 2 * maxx(g) <= mx2
      [] q = 4 -> 2 * maxy(g) < my2 /\ 2 * minx(g) > mx2

\* the two comparisons of lines 370-371, 376-377, 382-383 and 388-389: the
\* one against the horizontal middle-line and the one against the vertical
NearHorizontal(q, g, my2, dist) ==
    IF q \in {1, 2} THEN 2 * miny(g) < my2 + 2 * dist
    ELSE 2 * maxy(g) > my2 - 2 * dist
NearVertical(q, g, mx2, dist) ==
    IF q \in {1, 3} THEN 2 * maxx(g) > mx2 - 2 * dist
    ELSE 2 * minx(g) < mx2 + 2 * dist

\* lines 369-371, 375-377, 381-383, 387-389: the mask of the border area
InBorder(q, g, mx2, my2, dist) ==
    NearHorizontal(q, g, my2, dist) /\ NearVertical(q, g, mx2, dist)

QuarterRows(q, df) ==
    LET mx2 == TwiceMeanX(df)
        my2 == TwiceMeanY(df)
    IN SelectSeq(Indexed(df), LAMBDA r : InQuarter(q, r.geom, mx2, my2))

BorderRows(q, df, dist) ==
    LET mx2 == TwiceMeanX(df)
        my2 == TwiceMeanY(df)
    IN SelectSeq(QuarterRows(q, df), LAMBDA r : InBorder(q, r.geom, mx2, my2, dist))

Labels(df) == {df[k].idx : k \in 1..Len(df)}

\* lines 391-393: the small rows of the border area are dropped by label
DropSmallBorder(part, border, lim) ==
    LET excl == {border[k].idx : k \in {j \in 1..Len(border) : Area(border[j].geom) < lim}}
    IN SelectSeq(part, LAMBDA r : r.idx \notin excl)

\* lines 396-399
ExcludedShps(df, ps) ==
    SelectSeq(Indexed(df), LAMBDA r : \A q \in Quarters : r.idx \notin Labels(ps[q]))

\* the files of one layer, and the names of lines 408 and 329
Exts == {"shp", "shx", "dbf"}
PartNames == <<"temp_part_0", "temp_part_1", "temp_part_2", "temp_part_3">>
SimplifiedNames == <<"temp_part_0_simplified", "temp_part_1_simplified",
                     "temp_part_2_simplified", "temp_part_3_simplified">>
PartStem(i) == <<PartNames[i]>>
SimplifiedStem(i) == <<SimplifiedNames[i]>>
ShpFiles(stem) == {Append(stem, e) : e \in Exts}
ShpFile(stem) == Append(stem, "shp")

\* to_file: the rows without the index; read_file gives them a new RangeIndex
ToFile(df) ==
    [k \in 1..Len(df) |-> [geom |-> df[k].geom, cat |-> df[k].cat, keep |-> df[k].keep]]
ReadFile(stem) == layer[stem]

\* Path.suffix and Path.stem: the part after the last dot, and the name
\* before that dot; a name without a dot has no suffix
Suffix(p) == IF Len(p) >= 2 THEN p[Len(p)] ELSE ""
Stem(p) == IF Len(p) >= 2 THEN SubSeq(p, 1, Len(p) - 1) ELSE p

\* line 457: parent.glob(stem + ".*"), the files of the directory whose
\* names begin with the stem and a dot
Glob(dir, stem) == {f \in dir : Len(f) > Len(stem) /\ SubSeq(f, 1, Len(stem)) = stem}

\* lines 456 and 460-461: a path whose suffix is not .shp raises
Raises(p) == Suffix(p) # "shp"

\* lines 447-461: the directory del_shp leaves
DelShp(p, dir) == IF Raises(p) THEN dir ELSE dir \ Glob(dir, Stem(p))

\* the layers whose .shp file is in the directory
Kept(fn, dir) == [st \in {t \in DOMAIN fn : ShpFile(t) \in dir} |-> fn[st]]

Put(fn, key, val) == [k \in DOMAIN fn \cup {key} |-> IF k = key THEN val ELSE fn[k]]

\* the inputs of simplify_shps_mp: features on a plane of four by four cells
\* (x, y) of their cells: (0,0); (2,1); (1,2); (0,3) and (1,3); (3,3)
Sites == << {0}, {10}, {17}, {24, 25}, {27} >>

\* the rows of the input are distinct sites, in the order of Sites
Increasing(n, m) == {s \in [1..n -> 1..m] : \A i \in 1..(n - 1) : s[i] < s[i + 1]}

\* The index of the input: a RangeIndex, or an index in which the last row
\* repeats the label of the first (as a concat or an explode leaves it).
Indexes(n) ==
    {[i \in 1..n |-> i - 1], [i \in 1..n |-> IF i = n THEN 0 ELSE i - 1]}

InitMP ==
    /\ \E n \in 1..NumFeat :
         \E s \in Increasing(n, Len(Sites)), c \in Cats(n), x \in Indexes(n) :
            gdf_in = [i \in 1..n |->
                        [idx |-> x[i], geom |-> Sites[s[i]], cat |-> c[i], keep |-> "a"]]
    /\ area_lim \in 2..MaxAreaLim
    /\ dist_lim \in 0..MaxDist
    /\ keep_cols = FALSE
    /\ comp_raster = <<>>
    /\ InitRun
    /\ InitPool
    /\ mp_pc = "split"

\* lines 361-399: the quarters, their border areas, the exclusion
Split ==
    /\ mp_pc = "split"
    /\ LET qs == [q \in Quarters |-> QuarterRows(q, gdf_in)]
           bs == [q \in Quarters |-> BorderRows(q, gdf_in, dist_lim)]
           ps == [q \in Quarters |-> DropSmallBorder(qs[q], bs[q], area_lim)]
       IN /\ parts' = ps
          /\ parts_border' = bs
          /\ excluded_shps' = ExcludedShps(gdf_in, ps)
    /\ mp_pc' = "stage"
    /\ UNCHANGED <<gdf_in, area_lim, keep_cols, comp_raster, run_vars, del_vars, dist_lim,
                   temp_dir, layer, worker, in_gdf, parts_simplified, mp_result>>

\* lines 405-419: the parts are saved, the four tasks are handed to the pool
Stage ==
    /\ mp_pc = "stage"
    /\ temp_dir' = UNION {ShpFiles(PartStem(i)) : i \in Quarters}
    /\ layer' = [st \in {PartStem(i) : i \in Quarters} |->
                    ToFile(parts[CHOOSE i \in Quarters : PartStem(i) = st])]
    /\ parts' = <<>>
    /\ parts_border' = <<>>
    /\ worker' = [i \in Quarters |-> "queued"]
    /\ in_gdf' = [i \in Quarters |-> <<>>]
    /\ mp_pc' = "pool"
    /\ UNCHANGED <<gdf_in, area_lim, keep_cols, comp_raster, run_vars, del_vars, dist_lim,
                   excluded_shps, parts_simplified, mp_result>>

\* lines 326-327: a task reads its part and deletes the files of it
WorkerRead(i) ==
    /\ mp_pc = "pool"
    /\ worker[i] = "queued"
    /\ in_gdf' = [in_gdf EXCEPT ![i] = ReadFile(PartStem(i))]
    /\ temp_dir' = DelShp(ShpFile(PartStem(i)), temp_dir)
    /\ layer' = Kept(layer, temp_dir')
    /\ worker' = [worker EXCEPT ![i] = "read"]
    /\ UNCHANGED <<gdf_in, area_lim, keep_cols, comp_raster, run_vars, del_vars, dist_lim, mp_pc,
                   parts, parts_border, excluded_shps, parts_simplified, mp_result>>

\* lines 328-329: the task simplifies its part and saves the outcome
WorkerWrite(i) ==
    /\ mp_pc = "pool"
    /\ worker[i] = "read"
    /\ temp_dir' = temp_dir \cup ShpFiles(SimplifiedStem(i))
    /\ layer' = Put(layer, SimplifiedStem(i),
                    ToFile(SimplifyShps(in_gdf[i], area_lim, keep_cols, comp_raster)))
    /\ worker' = [worker EXCEPT ![i] = "written"]
    /\ UNCHANGED <<gdf_in, area_lim, keep_cols, comp_raster, run_vars, del_vars, dist_lim, mp_pc,
                   parts, parts_border, excluded_shps, in_gdf, parts_simplified, mp_result>>

\* PoolJoined, were the tasks not waited for.
PoolNotJoined == TRUE

\* line 422: pool.join() returns when every task has ended
PoolJoined == \A i \in Quarters : worker[i] = "written"

\* lines 421-423: pool.close(), pool.join(), pool.terminate()
Join ==
    /\ mp_pc = "pool"
    /\ PoolJoined
    /\ mp_pc' = "load"
    /\ UNCHANGED <<gdf_in, area_lim, keep_cols, comp_raster, run_vars, del_vars, dist_lim,
                   parts, parts_border, excluded_shps, temp_dir, layer, worker, in_gdf,
                   parts_simplified, mp_result>>

\* lines 428-430: del_shp for the simplified parts 1..n, one after the other
RECURSIVE DelShpAll(_, _)
DelShpAll(n, dir) ==
    IF n = 0 THEN dir ELSE DelShp(ShpFile(SimplifiedStem(n)), DelShpAll(n - 1, dir))

\* lines 426-430: the simplified parts are loaded and their files deleted
Load ==
    /\ mp_pc = "load"
    /\ parts_simplified' = [i \in Quarters |-> ReadFile(SimplifiedStem(i))]
    /\ temp_dir' = DelShpAll(Len(SimplifiedNames), temp_dir)
    /\ layer' = Kept(layer, temp_dir')
    /\ mp_pc' = "concat"
    /\ UNCHANGED <<gdf_in, area_lim, keep_cols, comp_raster, run_vars, del_vars, dist_lim,
                   parts, parts_border, excluded_shps, worker, in_gdf, mp_result>>

\* lines 437-440: the simplified parts, then the excluded rows
SimplGdf == Flatten(parts_simplified) \o ToFile(excluded_shps)

\* lines 434-444: the parts and the excluded rows are simplified together
Concat ==
    /\ mp_pc = "concat"
    /\ mp_result' = SimplifyShps(SimplGdf, area_lim, keep_cols, comp_raster)
    /\ parts_simplified' = <<>>
    /\ excluded_shps' = <<>>
    /\ mp_pc' = "done"
    /\ UNCHANGED <<gdf_in, area_lim, keep_cols, comp_raster, run_vars, del_vars, dist_lim,
                   parts, parts_border, temp_dir, layer, worker, in_gdf>>

NextMP ==
    \/ Split
    \/ Stage
    \/ \E i \in Quarters : WorkerRead(i)
    \/ \E i \in Quarters : WorkerWrite(i)
    \/ Join
    \/ Load
    \/ Concat

SpecMP == InitMP /\ [][NextMP]_vars

\* del_shp called by itself.  The directory holds files of the layers roads,
\* roads.v2 and v2, a text file and a file without a suffix; the path given
\* is one of these names, whether the file exists or not.
FileNames ==
    {<<"roads", "shp">>, <<"roads", "dbf">>, <<"roads", "v2", "shp">>,
     <<"roads", "v2", "dbf">>, <<"v2", "shp">>, <<"roads", "txt">>, <<"roads">>}

InitDel ==
    /\ gdf_in = <<>>
    /\ area_lim = 0
    /\ keep_cols = FALSE
    /\ comp_raster = <<>>
    /\ InitRun
    /\ InitTasks
    /\ dist_lim = 0
    /\ mp_pc = "off"
    /\ temp_dir \in SUBSET FileNames
    /\ fp \in FileNames
    /\ del_pc = "call"
    /\ dir_before = {}

\* lines 447-461
DelShpCall ==
    /\ del_pc = "call"
    /\ dir_before' = temp_dir
    /\ temp_dir' = DelShp(fp, temp_dir)
    /\ del_pc' = IF Raises(fp) THEN "raised" ELSE "returned"
    /\ UNCHANGED <<gdf_in, area_lim, keep_cols, comp_raster, run_vars, dist_lim, mp_pc,
                   parts, parts_border, excluded_shps, layer, worker, in_gdf,
                   parts_simplified, mp_result, fp>>

NextDel == DelShpCall

SpecDel == InitDel /\ [][NextDel]_vars

\* ================================================================== claims
\* A feature g is a merge-compatible neighbour of f: it touches or intersects
\* f, differs from f in a category column and equals f in the keep column.
MergeCompatible(f, g) ==
    /\ Intersects(f.geom, g.geom)
    /\ CatDiffers(f.cat, g.cat)
    /\ (keep_cols => f.keep = g.keep)

Returned == pc \in {"restore", "done"}

\* C1: when simplify_shps returns, no feature below area_lim that has a
\* merge-compatible neighbour is left in the frame.
C1_NoSliverWithNeighbour ==
    Returned =>
        \A i \in 1..Len(gdf_out) :
            Area(gdf_out[i].geom) < area_lim =>
                \A j \in 1..Len(gdf_out) :
                    j # i => ~MergeCompatible(gdf_out[i], gdf_out[j])

\* The candidates of the sliver the for loop visits next.
NextRow == Head(todo)
NextTouch == Redissolve(TouchRows(NextRow, gdf_out, keep_cols), keep_cols)
Scanning == pc = "scan" /\ todo # <<>>

\* the candidates whose raster_diff is the least one
LeastDiff(touch, row, raster) ==
    {p \in 1..Len(touch) : \A q \in 1..Len(touch) : ~DiffLess(touch[q], touch[p], row, raster)}

\* C2: with a raster and two or more candidates of which several have the
\* least raster difference, the candidate selected is the one of them with the
\* strictly longest shared border, whatever the index labels are.
C2_TieFallsToBorder ==
    (Scanning /\ comp_raster # <<>> /\ Len(NextTouch) >= 2) =>
        LET tied == LeastDiff(NextTouch, NextRow, comp_raster)
        IN \A p \in tied :
              (/\ Cardinality(tied) >= 2
               /\ \A q \in tied \ {p} :
                     SharedBorderLength(NextRow.geom, NextTouch[q].geom)
                       < SharedBorderLength(NextRow.geom, NextTouch[p].geom))
              => SelectRepl(NextTouch, NextRow, comp_raster) = NextTouch[p]

\* The rows of a frame as a set of (geometry, category key, keep key).
Features(df) ==
    {[geom |-> df[k].geom, cat |-> df[k].cat, keep |-> df[k].keep] : k \in 1..Len(df)}

\* The input as the loop holds it: missing values filled.
FilledIn == FillNa(gdf_in)

\* Every feature is at least area_lim, or no feature below it has a
\* merge-compatible neighbour.
Converged(df) ==
    \/ \A i \in 1..Len(df) : Area(df[i].geom) >= area_lim
    \/ \A i \in 1..Len(df) : Area(df[i].geom) < area_lim =>
          \A j \in 1..Len(df) : j # i => ~MergeCompatible(df[i], df[j])

\* C3 as claimed: on a converged input the output has the features of the
\* input, as many, none unioned.
C3_IdempotentOnConverged ==
    (pc = "done" /\ Converged(gdf_in)) =>
        /\ Len(result) = Len(gdf_in)
        /\ Features(result) = Features(gdf_in)

\* Every feature is one part, and if a feature is below area_lim (the loop
\* body runs) no two features with the same dissolve key share an edge.
Dissolved(df) ==
    /\ \A i \in 1..Len(df) : IsPolygon(df[i].geom)
    /\ (\E i \in 1..Len(df) : Area(df[i].geom) < area_lim) =>
          \A i, j \in 1..Len(df) :
              (i # j /\ DisKey(df[i], keep_cols) = DisKey(df[j], keep_cols))
                  => SharedBorderLength(df[i].geom, df[j].geom) = 0

\* C3, amended: on an input that is converged and already dissolved (values
\* taken as the loop holds them) the output has the features of the input,
\* as many, with every missing value and every text "NAN" missing.
C3_IdempotentOnDissolved ==
    (pc = "done" /\ Converged(FilledIn) /\ Dissolved(FilledIn)) =>
        /\ Len(result) = Len(gdf_in)
        /\ Features(result) = Features(NanBack(FilledIn))

\* a converged, dissolved input with a small feature: the loop body ran
C3_Witness ==
    /\ pc = "done"
    /\ Converged(FilledIn)
    /\ Dissolved(FilledIn)
    /\ passes >= 1
    /\ Len(gdf_in) >= 3

\* C5: in every state of the run (a missing value held as "NAN") and in the
\* output, the category key of every feature is the category key of a feature
\* of the input.
C5_CategoryFromInput ==
    /\ \A k \in 1..Len(gdf_out) : \E i \in 1..Len(gdf_in) : gdf_out[k].cat = FilledIn[i].cat
    /\ \A k \in 1..Len(result) : \E i \in 1..Len(gdf_in) : result[k].cat = gdf_in[i].cat

\* the keep values the input has on the cells of a geometry
KeepsUnder(g) ==
    {gdf_in[i].keep : i \in {i \in 1..Len(gdf_in) : gdf_in[i].geom \cap g # {}}}

\* C6: with keep columns, no feature of the frame or of the output covers
\* input features with different keep keys.
C6_KeepNeverMixed ==
    keep_cols =>
        /\ \A k \in 1..Len(gdf_out) : Cardinality(KeepsUnder(gdf_out[k].geom)) <= 1
        /\ \A k \in 1..Len(result) : Cardinality(KeepsUnder(result[k].geom)) <= 1

\* the number of features after the explode of lines 193-195
NumExploded == Len(Prepare(gdf_in))

\* C7: the loop body runs at most as many times as there are features after
\* the first explode (inside the loop fewer passes than that are completed),
\* and what is returned is the outcome of the last completed dissolve.
C7_AtMostNPasses ==
    /\ LET n == NumExploded
       IN passes <= n /\ (pc = "scan" => passes < n)
    /\ (pc = "done" /\ passes >= 1) => result = NanBack(last_pass.after)

\* a run that took as many passes as it had features
C7_Witness == pc = "done" /\ NumExploded >= 2 /\ passes = NumExploded

\* C8: the number of features below area_lim, counted after the first explode
\* and after every dissolve, never grows.
C8_SmallCountNeverGrows ==
    \A k \in 1..(Len(small_hist) - 1) : small_hist[k + 1] <= small_hist[k]

\* two passes, each of which left fewer small features
C8_Witness ==
    /\ Len(small_hist) >= 3
    /\ small_hist[2] < small_hist[1]
    /\ small_hist[3] < small_hist[2]

\* C9: from the first explode on, and in the output, every feature is one
\* Polygon.
C9_SinglePart ==
    /\ pc # "start" => \A k \in 1..Len(gdf_out) : IsPolygon(gdf_out[k].geom)
    /\ \A k \in 1..Len(result) : IsPolygon(result[k].geom)

\* an output in which one dissolve group came out as two features
C9_Witness ==
    /\ pc = "done"
    /\ passes >= 1
    /\ \E i, j \in 1..Len(result) :
          /\ i < j
          /\ result[i].cat = result[j].cat
          /\ result[i].keep = result[j].keep
          /\ Intersects(result[i].geom, result[j].geom)

\* The last completed pass: the frame it began with, and the frame its
\* dissolve produced.
Before == last_pass.start
After == last_pass.after

\* C10 as claimed: a sliver b with exactly one merge-compatible neighbour a,
\* sharing a border, carries a's category key after the pass, and the dissolve
\* yields one feature with that key whose region is the union of a and b.
C10_OnlyNeighbourMerge ==
    passes >= 1 =>
        \A b, a \in 1..Len(Before) :
            (/\ a # b
             /\ Area(Before[b].geom) < area_lim
             /\ MergeCompatible(Before[b], Before[a])
             /\ SharedBorderLength(Before[b].geom, Before[a].geom) > 0
             /\ \A c \in 1..Len(Before) :
                   (c # a /\ c # b) => ~MergeCompatible(Before[b], Before[c]))
            => /\ last_pass.frame[b].cat = Before[a].cat
               /\ \E r \in 1..Len(After) :
                     /\ After[r].cat = Before[a].cat
                     /\ After[r].geom = Before[a].geom \cup Before[b].geom

\* the candidate of a rewrite still carries its key when the pass is dissolved
StillCarries(cand) ==
    \A j \in 1..Len(last_pass.frame) :
        last_pass.frame[j].geom \subseteq cand.geom => last_pass.frame[j].cat = cand.cat

\* C10, amended: a sliver that has exactly one candidate when it is resolved
\* receives that candidate's category key; if they share a border and the
\* candidate still carries the key when the pass is dissolved, the dissolve
\* yields one feature with that key whose region contains both.
C10_SingleCandidateMerge ==
    passes >= 1 =>
        LET after == After
        IN \A k \in 1..Len(last_pass.picked) :
              LET pk == last_pass.picked[k]
              IN pk.ncand = 1 =>
                  /\ last_pass.frame[pk.row.name + 1].cat = pk.cand[1].cat
                  /\ (/\ SharedBorderLength(pk.row.geom, pk.cand[1].geom) > 0
                      /\ StillCarries(pk.cand[1]))
                     => \E r \in 1..Len(after) :
                           /\ after[r].cat = pk.cand[1].cat
                           /\ (pk.row.geom \cup pk.cand[1].geom) \subseteq after[r].geom

\* the scenario of the claim: the sliver's only candidate is not small, and the
\* dissolve yields their union
C10_Witness ==
    /\ passes >= 1
    /\ \E k \in 1..Len(last_pass.picked) :
          LET pk == last_pass.picked[k]
          IN /\ pk.ncand = 1
             /\ Area(pk.cand[1].geom) >= area_lim
             /\ SharedBorderLength(pk.row.geom, pk.cand[1].geom) > 0
             /\ CatDiffers(pk.row.cat, pk.cand[1].cat)
             /\ \E r \in 1..Len(After) :
                   /\ After[r].cat = pk.cand[1].cat
                   /\ After[r].geom = pk.row.geom \cup pk.cand[1].geom

\* ---------------------------------------------------------------------------
\* within dist_lim of a middle-line, the horizontal or the vertical one
InBand(q, g) ==
    \/ NearHorizontal(q, g, TwiceMeanY(gdf_in), dist_lim)
    \/ NearVertical(q, g, TwiceMeanX(gdf_in), dist_lim)

\* C4: after the split, every feature of a quarter that is below area_lim and
\* within dist_lim of the horizontal or of the vertical middle-line is out of
\* the part of that quarter and among the excluded rows.
C4_BandFeaturesDeferred ==
    mp_pc = "stage" =>
        \A q \in Quarters : \A k \in 1..Len(gdf_in) :
            LET r == Indexed(gdf_in)[k]
            IN (/\ InQuarter(q, r.geom, TwiceMeanX(gdf_in), TwiceMeanY(gdf_in))
                /\ Area(r.geom) < area_lim
                /\ InBand(q, r.geom))
               => (/\ r.idx \notin Labels(parts[q])
                   /\ r.idx \in Labels(excluded_shps))

\* ---------------------------------------------------------------------------
\* the sliver of a rewrite of the current pass, as it is in the frame
Rewritten(pk) == gdf_out[pk.row.name + 1]

Covering(df, c) == Cardinality({k \in 1..Len(df) : c \in df[k].geom})

\* the number of parts that hold the row of the input with this geometry
InParts(g) == Cardinality({q \in Quarters : \E k \in 1..Len(parts[q]) : parts[q][k].geom = g})

InExcluded(r) ==
    \E k \in 1..Len(excluded_shps) :
        /\ excluded_shps[k].geom = r.geom
        /\ excluded_shps[k].cat = r.cat
        /\ excluded_shps[k].keep = r.keep

\* C12: after the split every feature of the input is in exactly one part or,
\* as it was, among the excluded rows, and not in both; the frame given to the
\* last simplify_shps covers every cell of the input once and no other cell.
C12_EveryFeatureOnce ==
    /\ mp_pc = "stage" =>
          \A k \in 1..Len(gdf_in) :
              \/ InParts(gdf_in[k].geom) = 1 /\ ~InExcluded(gdf_in[k])
              \/ InParts(gdf_in[k].geom) = 0 /\ InExcluded(gdf_in[k])
    /\ mp_pc = "concat" =>
          \A c \in UNION {Sites[i] : i \in 1..Len(Sites)} :
              Covering(SimplGdf, c) = Covering(gdf_in, c)

\* ---------------------------------------------------------------------------
\* The frame as the current pass found it, and a sliver resolved on it.
AtPassStart == PassStart(gdf_out, mask_shps_small)
OnPassStart(pk) == Pick(pk.row, AtPassStart, keep_cols, comp_raster)

\* C13 as claimed: every sliver of a pass has the candidates and receives the
\* category it would have on the frame as the pass found it, whatever was
\* rewritten before it in the pass.
C13_ScanIndependent ==
    pc = "scan" =>
        \A k \in 1..Len(picked) :
            /\ picked[k].touch = OnPassStart(picked[k]).touch
            /\ picked[k].cand = OnPassStart(picked[k]).cand

\* a rewrite made earlier in the pass than the k-th, of a row that touches
\* the sliver of the k-th
TouchedBefore(k) ==
    \E j \in 1..(k - 1) :
        /\ picked[j].cand # <<>>
        /\ Intersects(picked[j].row.geom, picked[k].row.geom)

\* C13, amended: a sliver has the candidates and receives the category it
\* would have on the frame as the pass found it when no row that touches it
\* was rewritten before it in the pass.
C13_IndependentOfFarRewrites ==
    pc = "scan" =>
        \A k \in 1..Len(picked) :
            ~TouchedBefore(k) =>
                LET alone == OnPassStart(picked[k])
                IN /\ picked[k].touch = alone.touch
                   /\ picked[k].cand = alone.cand

\* a sliver rewritten after a sliver that does not touch it was rewritten
C13_Witness ==
    /\ pc = "scan"
    /\ \E k \in 2..Len(picked) :
          /\ ~TouchedBefore(k)
          /\ picked[k].cand # <<>>
          /\ \E j \in 1..(k - 1) : picked[j].cand # <<>>

\* ---------------------------------------------------------------------------
\* the part of a quarter as it is saved, and a layer that is in temp_dir
StagedPart(i) ==
    ToFile(DropSmallBorder(QuarterRows(i, gdf_in), BorderRows(i, gdf_in, dist_lim), area_lim))
HasLayer(stem) == stem \in DOMAIN layer /\ ShpFiles(stem) \subseteq temp_dir
NoLayer(stem) == stem \notin DOMAIN layer /\ ShpFiles(stem) \cap temp_dir = {}

\* what a task holds and has on disk follows from its own part and from how
\* far it has come, whatever the other tasks have done
TaskAlone(i) ==
    CASE worker[i] = "queued" ->
            /\ HasLayer(PartStem(i)) /\ layer[PartStem(i)] = StagedPart(i)
            /\ NoLayer(SimplifiedStem(i))
            /\ in_gdf[i] = <<>>
      [] worker[i] = "read" ->
            /\ NoLayer(PartStem(i)) /\ NoLayer(SimplifiedStem(i))
            /\ in_gdf[i] = StagedPart(i)
      [] worker[i] = "written" ->
            /\ NoLayer(PartStem(i))
            /\ HasLayer(SimplifiedStem(i))
            /\ in_gdf[i] = StagedPart(i)

\* when the pool is joined every outcome is the part of its task, simplified
OutcomeOfOwnPart(i) ==
    layer[SimplifiedStem(i)] =
        ToFile(SimplifyShps(StagedPart(i), area_lim, keep_cols, comp_raster))

\* C14: the simplified parts are loaded and the last simplify_shps is called
\* only when each of the four tasks has read its part and written its
\* outcome; from then on no task can take a step; and what each task holds
\* while the pool runs, and its outcome, depend on its own part alone.
C14_ForkJoin ==
    /\ mp_pc \in {"load", "concat", "done"} =>
          \A i \in Quarters :
              /\ worker[i] = "written"
              /\ ~ENABLED WorkerRead(i)
              /\ ~ENABLED WorkerWrite(i)
    /\ mp_pc \in {"pool", "load"} => \A i \in Quarters : TaskAlone(i)
    /\ mp_pc = "load" => \A i \in Quarters : OutcomeOfOwnPart(i)

\* the pool is joined with two tasks that each had features to simplify
C14_Witness ==
    /\ mp_pc = "concat"
    /\ \E i, j \in Quarters :
          i # j /\ parts_simplified[i] # <<>> /\ parts_simplified[j] # <<>>

\* ---------------------------------------------------------------------------
\* The input exploded, with its values as given: the rows of gdf_out in the
\* first pass, before the missing values were filled.
RawRows ==
    Explode([k \in 1..Len(gdf_in) |->
        [geom |-> gdf_in[k].geom, cat |-> gdf_in[k].cat, keep |-> gdf_in[k].keep,
         changed |-> FALSE]])

\* the values a frame has in the first category column, the second, the keep column
ValuesOf(df) ==
    [c1 |-> {df[k].cat[1] : k \in 1..Len(df)},
     c2 |-> {df[k].cat[2] : k \in 1..Len(df)},
     kp |-> {df[k].keep : k \in 1..Len(df)}]

\* C15: a missing value equals a missing value and no other value: the
\* candidates of the first sliver of a run are the rows that touch it, differ
\* from it in a category column and equal it in the keep column, values taken
\* as given; and a column of the output has a missing value only if it has
\* one in the input.
C15_NullOwnClass ==
    /\ (pc = "scan" /\ passes = 0 /\ picked = <<>> /\ todo # <<>>) =>
          LET raw == RawRows
              n == NextRow.name + 1
              names == {t.name : t \in {TouchRows(NextRow, gdf_out, keep_cols)[j] :
                                          j \in 1..Len(TouchRows(NextRow, gdf_out, keep_cols))}}
          IN \A k \in 1..Len(raw) :
                (k - 1 \in names) <=>
                    /\ Intersects(raw[k].geom, raw[n].geom)
                    /\ CatDiffers(raw[k].cat, raw[n].cat)
                    /\ (keep_cols => raw[k].keep = raw[n].keep)
    /\ pc = "done" =>
          /\ Null \in ValuesOf(result).c1 => Null \in ValuesOf(gdf_in).c1
          /\ Null \in ValuesOf(result).c2 => Null \in ValuesOf(gdf_in).c2
          /\ Null \in ValuesOf(result).kp => Null \in ValuesOf(gdf_in).kp

\* the files of dir_before that del_shp has unlinked
Unlinked == dir_before \ temp_dir

\* a file of the layer of the path p: it has the stem of p and a suffix
Sidecar(f, p) == Len(f) >= 2 /\ Stem(f) = Stem(p)

\* C16: del_shp on a path whose suffix is not .shp raises and deletes no
\* file; on a .shp path it returns, it has deleted every file of the directory
\* that has the stem of the path and a suffix (the sidecars of the layer), and
\* it has deleted no file of another stem.
C16_DelShpOneLayer ==
    /\ del_pc \in {"returned", "raised"} => (del_pc = "raised" <=> Suffix(fp) # "shp")
    /\ del_pc = "raised" => temp_dir = dir_before
    /\ del_pc = "returned" =>
          /\ temp_dir \subseteq dir_before
          /\ \A f \in dir_before : Sidecar(f, fp) => f \in Unlinked
          /\ \A f \in Unlinked : Stem(f) = Stem(fp)

\* the small rows of the first computation of the mask, line 219
InitialSmall == small_hist[1]

\* C17: the engine is in the loop only when the undersized set it computed
\* last is not empty and the feature count before the last dissolve differs
\* from the count after it, and it has left the loop only when that set is
\* empty or the two counts are equal; the counts are those of the frame the
\* dissolve was applied to and of the frame it gave.  When the first undersized
\* set is empty the loop body is never run.
C17_LoopLeftWhenConverged ==
    /\ pc = "scan" => Len(mask_shps_small) > 0 /\ len_before # len_after
    /\ Returned =>
          /\ mask_shps_small = MaskSmall(gdf_out, area_lim)
          /\ Len(mask_shps_small) = 0 \/ len_before = len_after
    /\ passes >= 1 =>
          /\ len_before = Len(last_pass.frame)
          /\ len_after = Len(last_pass.after)
    /\ (pc # "start" /\ InitialSmall = 0) =>
          /\ passes = 0
          /\ picked = <<>>
          /\ Returned

\* The loop was run twice and left with small features remaining.
C17_Witness ==
    /\ pc = "done"
    /\ passes >= 2
    /\ Len(mask_shps_small) > 0
    /\ len_before = len_after

\* ---------------------------------------------------------------------------
\* The rows of the frame that may give the row at position k their category:
\* another row that touches or intersects it, differs from it in a category
\* column and, with keep columns, equals it in the keep column.
Candidates(df, k) ==
    {g \in 1..Len(df) : g # k /\ MergeCompatible(df[k], df[g])}

\* C18: a turn of the for loop overwrites the category key of its sliver only
\* with the category key of another row that touches or intersects the sliver,
\* differs from it in a category column and equals it in the keep column when
\* keep columns are given; when there is no such row the sliver's row is left
\* as it is.
C18_RewriteFromCandidate ==
    [][Scanning =>
        LET k == NextRow.name + 1
            cands == Candidates(gdf_out, k)
        IN /\ gdf_out'[k].cat # gdf_out[k].cat =>
                 \E g \in cands : gdf_out'[k].cat = gdf_out[g].cat
           /\ cands = {} => gdf_out'[k] = gdf_out[k]]_vars

\* with keep columns: a sliver rewritten although a row of another keep value
\* touches it, and a sliver without a candidate
C18_Witness ==
    /\ pc = "scan"
    /\ keep_cols
    /\ \E k \in 1..Len(picked) :
          /\ picked[k].cand # <<>>
          /\ \E g \in 1..Len(gdf_out) :
                /\ Intersects(gdf_out[g].geom, picked[k].row.geom)
                /\ gdf_out[g].keep # picked[k].row.keep
    /\ \E k \in 1..Len(picked) : picked[k].cand = <<>>

\* ---------------------------------------------------------------------------
\* The frame the current pass began with: the prepared input, or the frame
\* the last dissolve gave.
PassFrame == IF passes = 0 THEN Prepare(gdf_in) ELSE last_pass.after

\* the index labels of the rows of a frame that are below the area limit
Undersized(df) == {k - 1 : k \in {j \in 1..Len(df) : Area(df[j].geom) < area_lim}}

\* the slivers of a sequence of turns, and of the rows still to visit
TurnLabels(pks) == {pks[k].row.name : k \in 1..Len(pks)}
NonDecreasing(pks) ==
    \A j, k \in 1..Len(pks) : j < k => Area(pks[j].row.geom) <= Area(pks[k].row.geom)

PassBegins == pc = "scan" /\ picked = <<>>

\* C20: a turn of the for loop leaves the number of rows, the geometry and
\* the keep value of its sliver and every other row of gdf_out as they are;
\* it sets the changed flag of the sliver exactly when it has rewritten the
\* sliver's category key.  When a pass begins the changed flag of every row is
\* false.
C20_ResolverFrame ==
    [][/\ Scanning =>
            LET k == NextRow.name + 1
            IN /\ Len(gdf_out') = Len(gdf_out)
               /\ gdf_out'[k].geom = gdf_out[k].geom
               /\ gdf_out'[k].keep = gdf_out[k].keep
               /\ gdf_out'[k].changed <=> gdf_out'[k].cat # gdf_out[k].cat
               /\ \A j \in 1..Len(gdf_out) : j # k => gdf_out'[j] = gdf_out[j]
       /\ PassBegins' => \A j \in 1..Len(gdf_out') : ~gdf_out'[j].changed]_vars

\* in a second pass: a sliver rewritten and flagged, beside a row that is not
C20_Witness ==
    /\ pc = "scan"
    /\ passes >= 1
    /\ \E k \in 1..Len(picked) :
          /\ Rewritten(picked[k]).changed
          /\ Rewritten(picked[k]).cat # picked[k].row.cat
          /\ Rewritten(picked[k]).geom = picked[k].row.geom
    /\ \E j \in 1..Len(gdf_out) : ~gdf_out[j].changed

\* ---------------------------------------------------------------------------
\* the region a frame covers
Region(df) == UNION {df[k].geom : k \in 1..Len(df)}

\* the frame simplify_shps holds or has returned
Store == IF pc = "done" THEN result ELSE gdf_out

\* C21 as claimed: from the first statement of the loop on, the store covers
\* the region of the input, and every cell is covered by as many features of
\* the store as of the input.
C21_CoverageConserved ==
    pc # "start" =>
        /\ Region(Store) = Region(gdf_in)
        /\ \A c \in Cells : Covering(Store, c) = Covering(gdf_in, c)

\* C21, amended: the store covers the region of the input, and every cell is
\* covered by at least one feature of the store when the input covers it and
\* by no more features of the store than of the input; a cell that one
\* feature of the input covers is covered by one feature of the store.
C21_RegionConserved ==
    pc # "start" =>
        LET store == Store
        IN /\ Region(store) = Region(gdf_in)
           /\ \A c \in Cells :
                 LET now == Covering(store, c)
                     before == Covering(gdf_in, c)
                 IN /\ now <= before
                    /\ before >= 1 => now >= 1
                    /\ before = 1 => now = 1

\* a pass that rewrote a sliver and dissolved the rows into fewer, on a layer
\* with a cell that two features cover
C21_Witness ==
    /\ pc = "done"
    /\ passes >= 1
    /\ \E k \in 1..Len(last_pass.picked) : last_pass.picked[k].cand # <<>>
    /\ Len(last_pass.after) < Len(last_pass.frame)
    /\ \E c \in Cells : Covering(gdf_in, c) >= 2
    /\ \E c \in Cells : Covering(gdf_in, c) = 1

====
